---- MODULE Spec2Model ----
(***************************************************************************)
(* A model of export_pdf.py: find_browser, start_server,                   *)
(* build_print_command, export_to_pdf and the path resolution of main.     *)
(*                                                                         *)
(* Strings are sequences of tokens.  The tokens "/", ".", "~" and " " are  *)
(* single characters; every other token stands for a run of characters     *)
(* that contains none of them.  The empty string is <<>>.  An Optional     *)
(* value is a set: None is {} and the value v is {v}.                      *)
(***************************************************************************)
EXTENDS Integers, Sequences, FiniteSets, TLC

VARIABLES
    args,       \* the inputs of the call under study, environment included
    ret,        \* its outcome: [kind |-> "pending"], a return or an exception
    pc,         \* export_to_pdf: position of the calling thread
    server,     \* export_to_pdf: the ThreadingHTTPServer object
    thread,     \* export_to_pdf: state of the serve_forever thread
    proc,       \* export_to_pdf: the browser subprocess
    local,      \* export_to_pdf: url, command, result, pending exception
    hist        \* export_to_pdf: observation of the events of the call

vars == <<args, ret, pc, server, thread, proc, local, hist>>

(***************************************************************************)
(* Bounds                                                                  *)
(***************************************************************************)
MaxPathLen == 4     \* tokens in an explicit --browser string
MaxOutLen == 2      \* tokens in an output path string
MaxOutArgLen == 1   \* tokens in the output_pdf argument of main
MaxHtmlLen == 4     \* tokens in the html_file argument
MaxWait == 12       \* magnitude of the sampled --wait values

MaxRequests == 2    \* connections made to the listener in one run

DefaultWait == 10000
JoinTimeout == 2

(***************************************************************************)
(* Strings                                                                 *)
(***************************************************************************)
None == {}
Some(v) == {v}
TheValue(opt) == CHOOSE v \in opt : TRUE

RECURSIVE StringsUpTo(_, _)
\* every string of at most n tokens over the alphabet
StringsUpTo(alphabet, n) ==
    IF n = 0 THEN {<<>>}
    ELSE LET shorter == StringsUpTo(alphabet, n - 1)
         IN  shorter \cup {Append(s, t) : s \in shorter, t \in alphabet}

RECURSIVE SplitFrom(_, _, _)
SplitFrom(s, sep, cur) ==
    IF s = <<>> THEN <<cur>>
    ELSE IF Head(s) = sep THEN <<cur>> \o SplitFrom(Tail(s), sep, <<>>)
    ELSE SplitFrom(Tail(s), sep, Append(cur, Head(s)))

\* str.split(sep)
Split(s, sep) == SplitFrom(s, sep, <<>>)

RECURSIVE Join(_, _)
\* sep.join(parts)
Join(parts, sep) ==
    IF parts = <<>> THEN <<>>
    ELSE IF Len(parts) = 1 THEN parts[1]
    ELSE parts[1] \o <<sep>> \o Join(Tail(parts), sep)

RECURSIVE LStrip(_, _)
\* str.lstrip(ch)
LStrip(s, ch) == IF s # <<>> /\ Head(s) = ch THEN LStrip(Tail(s), ch) ELSE s

RECURSIVE Keep(_, _)
\* the elements of a sequence that are not in drop, in order
Keep(seq, drop) ==
    IF seq = <<>> THEN <<>>
    ELSE IF Head(seq) \in drop THEN Keep(Tail(seq), drop)
    ELSE <<Head(seq)>> \o Keep(Tail(seq), drop)

\* bool(x) of an Optional[str]: None and the empty string are both falsy
Truthy(opt) == opt # None /\ opt # Some(<<>>)

(***************************************************************************)
(* pathlib.PurePosixPath                                                   *)
(***************************************************************************)
\* posix splitroot: exactly two leading slashes are kept, any other number
\* of leading slashes is one root
SplitRoot(s) ==
    IF s # <<>> /\ Head(s) = "/"
    THEN LET stripped == LStrip(s, "/")
         IN  [root |-> IF Len(s) - Len(stripped) = 2 THEN <<"/", "/">> ELSE <<"/">>,
              rel  |-> stripped]
    ELSE [root |-> <<>>, rel |-> s]

\* pathlib.Path(s): the root and the components that are neither empty nor "."
PathOf(s) ==
    LET sr == SplitRoot(s)
    IN  [root  |-> sr.root,
         parts |-> Keep(Split(sr.rel, "/"), {<<>>, <<".">>})]

\* str(path)
PathStr(p) ==
    LET s == p.root \o Join(p.parts, "/")
    IN  IF s = <<>> THEN <<".">> ELSE s

(***************************************************************************)
(* The file system as find_browser sees it: args.cwd, args.files.          *)
(* Canonical locations are sequences of names below the root.              *)
(***************************************************************************)
Chrome == <<"chrome">>
Home == <<"home">>
Directories == {<<>>, <<Home>>}
PossibleFiles == {<<Chrome>>, <<Home, Chrome>>}

ParentOf(loc) == IF loc = <<>> THEN <<>> ELSE SubSeq(loc, 1, Len(loc) - 1)

RECURSIVE Walk(_, _, _)
\* the kernel's path walk: {} on ENOENT or ENOTDIR, else {location}
Walk(segs, cur, files) ==
    IF segs = <<>> THEN {cur}
    ELSE IF cur \notin Directories THEN {}
    ELSE LET x == Head(segs)
         IN  IF x = <<>> \/ x = <<".">> THEN Walk(Tail(segs), cur, files)
             ELSE IF x = <<".", ".">> THEN Walk(Tail(segs), ParentOf(cur), files)
             ELSE IF Append(cur, x) \in Directories \cup files
                  THEN Walk(Tail(segs), Append(cur, x), files)
                  ELSE {}

\* os.stat(s) succeeds and S_ISREG holds
OsIsFile(s, cwd, files) ==
    /\ s # <<>>
    /\ \E loc \in Walk(Split(s, "/"), IF Head(s) = "/" THEN <<>> ELSE cwd, files) :
          loc \in files

(***************************************************************************)
(* find_browser                                                            *)
(***************************************************************************)
Candidates == <<"google-chrome", "chromium-browser", "chromium", "chrome", "msedge">>
CandidateSet == {Candidates[i] : i \in DOMAIN Candidates}

\* shutil.which(candidate): the resolved path, or None
Which(candidate, installed) ==
    IF candidate \in installed
    THEN Some(<<"/", "usr", "/", "bin", "/", candidate>>)
    ELSE None

Return(v) == [kind |-> "return", value |-> v]
Raise(type, msg) == [kind |-> "raise", type |-> type, msg |-> msg]
Pending == [kind |-> "pending"]

NotFoundAny ==
    Raise("FileNotFoundError",
          <<"No Chrome/Chromium executable found. Use --browser to point to an existing binary.">>)

RECURSIVE SearchCandidatesReversed(_, _)
\* the same loop over the candidate tuple read from its far end
SearchCandidatesReversed(i, installed) ==
    IF i > Len(Candidates) THEN NotFoundAny
    ELSE LET resolved == Which(Candidates[Len(Candidates) + 1 - i], installed)
         IN  IF resolved # None THEN Return(TheValue(resolved))
             ELSE SearchCandidatesReversed(i + 1, installed)

RECURSIVE SearchCandidates(_, _)
\* the for loop of find_browser, from candidate i on
SearchCandidates(i, installed) ==
    IF i > Len(Candidates) THEN NotFoundAny
    ELSE LET resolved == Which(Candidates[i], installed)
         IN  IF resolved # None THEN Return(TheValue(resolved))
             ELSE SearchCandidates(i + 1, installed)

find_browser(explicit_path, cwd, files, installed) ==
    IF Truthy(explicit_path)
    THEN LET browser_path == PathOf(TheValue(explicit_path))
         IN  IF OsIsFile(PathStr(browser_path), cwd, files)
             THEN Return(PathStr(browser_path))
             ELSE Raise("FileNotFoundError",
                        <<"Browser binary not found at provided path: ">> \o PathStr(browser_path))
    ELSE SearchCandidates(1, installed)

Idle == [pc |-> "idle"]

BrowserStrings == StringsUpTo({"/", ".", "chrome"}, MaxPathLen)

InitFind ==
    /\ args \in [fn            : {"find_browser"},
                 explicit_path : {None} \cup {Some(s) : s \in BrowserStrings},
                 cwd           : {<<Home>>},
                 files         : SUBSET PossibleFiles,
                 installed     : SUBSET CandidateSet]
    /\ ret = Pending
    /\ pc = "idle" /\ server = Idle /\ thread = Idle /\ proc = Idle
    /\ local = Idle /\ hist = Idle

FindBrowser ==
    /\ args.fn = "find_browser"
    /\ ret = Pending
    /\ ret' = find_browser(args.explicit_path, args.cwd, args.files, args.installed)
    /\ UNCHANGED <<args, pc, server, thread, proc, local, hist>>

NextFind == FindBrowser

SpecFind == InitFind /\ [][NextFind]_vars

(***************************************************************************)
(* build_print_command                                                     *)
(***************************************************************************)
Digits == <<"0", "1", "2", "3", "4", "5", "6", "7", "8", "9">>

RECURSIVE NatStr(_)
NatStr(n) ==
    IF n < 10 THEN <<Digits[n + 1]>>
    ELSE Append(NatStr(n \div 10), Digits[(n % 10) + 1])

\* str(n) of an int, as the f-string formats it
IntStr(n) == IF n < 0 THEN <<"-">> \o NatStr(0 - n) ELSE NatStr(n)

\* the same list with the URL moved in front of the flags
build_print_command_url_first(browser, url, output_pdf, wait_ms) ==
    << browser,
       url,
       <<"--headless=new">>,
       <<"--disable-gpu">>,
       <<"--no-sandbox">>,
       <<"--virtual-time-budget=">> \o IntStr(wait_ms),
       <<"--print-to-pdf=">> \o PathStr(output_pdf) >>

build_print_command(browser, url, output_pdf, wait_ms) ==
    << browser,
       <<"--headless=new">>,
       <<"--disable-gpu">>,
       <<"--no-sandbox">>,
       <<"--virtual-time-budget=">> \o IntStr(wait_ms),
       <<"--print-to-pdf=">> \o PathStr(output_pdf),
       url >>

SampleBrowsers ==
    { <<"/", "usr", "/", "bin", "/", "chromium">>, <<"chrome">>, <<"/", "opt", "/", "my", " ", "chrome">> }
SampleUrls ==
    { <<"http://", "127.0.0.1", ":", "4", "9", "1", "5", "2", "/", "report", ".", "htm">>,
      <<"http://", "127.0.0.1", ":", "8", "0", "/", "a", "%20", "b", ".", "htm">>,
      <<>> }

InitCmd ==
    /\ args \in [fn         : {"build_print_command"},
                 browser    : SampleBrowsers,
                 url        : SampleUrls,
                 output_pdf : {PathOf(s) : s \in StringsUpTo({"/", ".", "out", "pdf"}, MaxOutLen)},
                 wait_ms    : (0 - MaxWait .. MaxWait) \cup {DefaultWait}]
    /\ ret = Pending
    /\ pc = "idle" /\ server = Idle /\ thread = Idle /\ proc = Idle
    /\ local = Idle /\ hist = Idle

BuildPrintCommand ==
    /\ args.fn = "build_print_command"
    /\ ret = Pending
    /\ ret' = Return(build_print_command(args.browser, args.url, args.output_pdf, args.wait_ms))
    /\ UNCHANGED <<args, pc, server, thread, proc, local, hist>>

NextCmd == BuildPrintCommand

SpecCmd == InitCmd /\ [][NextCmd]_vars

(***************************************************************************)
(* main: the resolution of html_path and output_pdf                        *)
(***************************************************************************)
\* Path.expanduser(): a leading "~" component becomes the home directory; a
\* leading "~name" of an unknown user cannot be expanded
ExpandUser(p, home) ==
    IF p.root = <<>> /\ p.parts # <<>> /\ Head(p.parts[1]) = "~"
    THEN IF p.parts[1] = <<"~">>
         THEN Return([root |-> home.root, parts |-> home.parts \o Tail(p.parts)])
         ELSE Raise("RuntimeError", <<"Could not determine home directory.">>)
    ELSE Return(p)

RECURSIVE Normalise(_, _)
\* the lexical walk of os.path.realpath without symbolic links
Normalise(parts, loc) ==
    IF parts = <<>> THEN loc
    ELSE IF Head(parts) = <<".", ".">> THEN Normalise(Tail(parts), ParentOf(loc))
    ELSE Normalise(Tail(parts), Append(loc, Head(parts)))

\* Path.resolve(): absolute, ".." removed
Resolve(p, cwd) ==
    [root  |-> <<"/">>,
     parts |-> Normalise(p.parts, IF p.root = <<>> THEN cwd.parts ELSE <<>>)]

\* the index of the last "." of a file name, 0 when there is none
LastDot(name) ==
    LET dots == {i \in DOMAIN name : name[i] = "."}
    IN  IF dots = {} THEN 0 ELSE CHOOSE i \in dots : \A j \in dots : j <= i

\* PurePath.suffix: from the last dot, unless it is the first or last character
Suffix(name) ==
    LET i == LastDot(name)
    IN  IF 1 < i /\ i < Len(name) THEN SubSeq(name, i, Len(name)) ELSE <<>>

\* a variant that cuts the name at its first dot
WithSuffixFirstDot(p, suffix) ==
    LET name == p.parts[Len(p.parts)]
        dots == {i \in DOMAIN name : name[i] = "." /\ i > 1}
        cut  == IF dots = {} THEN Len(name) + 1 ELSE CHOOSE i \in dots : \A j \in dots : i <= j
        new  == SubSeq(name, 1, cut - 1) \o suffix
    IN  [root |-> p.root, parts |-> Append(SubSeq(p.parts, 1, Len(p.parts) - 1), new)]

\* PurePath.with_suffix(suffix) of a path that has a name
WithSuffix(p, suffix) ==
    LET name == p.parts[Len(p.parts)]
        old  == Suffix(name)
        new  == SubSeq(name, 1, Len(name) - Len(old)) \o suffix
    IN  [root |-> p.root, parts |-> Append(SubSeq(p.parts, 1, Len(p.parts) - 1), new)]

Cwd == [root |-> <<"/">>, parts |-> << <<"srv">>, <<"work">> >>]
HomeDir == [root |-> <<"/">>, parts |-> << <<"home">>, <<"user">> >>]

RECURSIVE Prefixes(_)
Prefixes(seq) == IF seq = <<>> THEN {<<>>} ELSE {seq} \cup Prefixes(SubSeq(seq, 1, Len(seq) - 1))

\* Path.is_file(): the directories of the model are never regular files; any
\* other location is one when the environment says so
IsFile(p, exists) == exists /\ p.parts \notin (Prefixes(Cwd.parts) \cup Prefixes(HomeDir.parts))

\* main, lines 138-147: the paths handed to find_browser and export_to_pdf
ResolvePaths(html_file, output_pdf, cwd, home, exists) ==
    LET expanded == ExpandUser(PathOf(html_file), home)
    IN  IF expanded.kind = "raise" THEN expanded
        ELSE LET html_path == Resolve(expanded.value, cwd)
             IN  IF ~IsFile(html_path, exists)
                 THEN Raise("FileNotFoundError", <<"HTML file not found: ">> \o PathStr(html_path))
                 ELSE IF output_pdf # None
                      THEN LET out == ExpandUser(PathOf(TheValue(output_pdf)), home)
                           IN  IF out.kind = "raise" THEN out
                               ELSE Return([html_path |-> html_path,
                                            output_pdf |-> Resolve(out.value, cwd)])
                      ELSE Return([html_path |-> html_path,
                                   output_pdf |-> WithSuffix(html_path, <<".", "pdf">>)])

InitMain ==
    /\ args \in [fn         : {"main"},
                 html_file  : StringsUpTo({"/", ".", "~", "report", "htm"}, MaxHtmlLen),
                 output_pdf : {None} \cup {Some(s) : s \in StringsUpTo({"/", ".", "~", "out"}, MaxOutArgLen)},
                 exists     : BOOLEAN]
    /\ ret = Pending
    /\ pc = "idle" /\ server = Idle /\ thread = Idle /\ proc = Idle
    /\ local = Idle /\ hist = Idle

MainResolvePaths ==
    /\ args.fn = "main"
    /\ ret = Pending
    /\ ret' = ResolvePaths(args.html_file, args.output_pdf, Cwd, HomeDir, args.exists)
    /\ UNCHANGED <<args, pc, server, thread, proc, local, hist>>

NextMain == MainResolvePaths

SpecMain == InitMain /\ [][NextMain]_vars

(***************************************************************************)
(* export_to_pdf with start_server, the serve_forever thread and the       *)
(* browser subprocess                                                      *)
(***************************************************************************)
\* urllib.parse.quote(name): unreserved characters stay, the others become
\* the percent-encoded bytes of their UTF-8 encoding; a lone surrogate (a
\* file name byte that is not UTF-8) has no UTF-8 encoding
Encodable(name) == \A i \in DOMAIN name : name[i] # "U+DCFF"

RECURSIVE Quote(_)
Quote(name) ==
    IF name = <<>> THEN <<>>
    ELSE (CASE Head(name) = " "      -> <<"%20">>
            [] Head(name) = "U+AC00" -> <<"%EA%B0%80">>
            [] OTHER                 -> <<Head(name)>>) \o Quote(Tail(name))

\* bytes.decode() of text=True with the UTF-8 locale, errors="strict"
Decodable(bytes) == \A i \in DOMAIN bytes : bytes[i] < 128

Ascii(b) ==
    CASE b = 98  -> "b"
      [] b = 111 -> "o"
      [] b = 109 -> "m"
      [] OTHER   -> "?"

RECURSIVE DecodeText(_)
\* decoding with universal newlines: "\r\n" and "\r" both become "\n"
DecodeText(bytes) ==
    IF bytes = <<>> THEN <<>>
    ELSE IF Head(bytes) = 13
         THEN IF Len(bytes) > 1 /\ bytes[2] = 10
              THEN <<"\n">> \o DecodeText(Tail(Tail(bytes)))
              ELSE <<"\n">> \o DecodeText(Tail(bytes))
    ELSE IF Head(bytes) = 10 THEN <<"\n">> \o DecodeText(Tail(bytes))
    ELSE <<Ascii(Head(bytes))>> \o DecodeText(Tail(bytes))

Boom == <<98, 111, 111, 109, 13, 10>>
SampleOutputs == {<<>>, Boom, <<255>>}
SampleNames ==
    { <<"report", ".", "htm">>,
      <<"U+AC00", " ", "report", ".", "htm">>,
      <<"U+DCFF", ".", "htm">> }
EphemeralPorts == {49152, 49153}

FailureMessage(command, result) ==
    <<"Browser failed to generate PDF.", "\n", "Command: ">> \o Join(command, " ")
        \o <<"\n", "stdout: ">> \o result.stdout
        \o <<"\n", "stderr: ">> \o result.stderr

Exited == pc \in {"returned", "raised"}

Init ==
    /\ args \in [fn         : {"export_to_pdf"},
                 html_path  : {[root |-> <<"/">>, parts |-> Append(Cwd.parts, n)] : n \in SampleNames},
                 output_pdf : {[root |-> <<"/">>, parts |-> Append(Cwd.parts, <<"report", ".", "pdf">>)]},
                 wait_ms    : {DefaultWait},
                 browser    : {<<"/", "usr", "/", "bin", "/", "chromium">>}]
    /\ ret = Pending
    /\ pc = "start"
    /\ server = [listener |-> "none", port |-> 0, shutdown_request |-> FALSE,
                 is_shut_down |-> FALSE, backlog |-> 0, served |-> 0]
    /\ thread = "unstarted"
    /\ proc = [state |-> "none", returncode |-> 0, stdout |-> <<>>, stderr |-> <<>>]
    /\ local = [url |-> <<>>, command |-> <<>>, result |-> None, exc |-> None, waited |-> 0]
    /\ hist = [events |-> <<>>, joined |-> "no"]

\* line 84, start_server: the listener is bound to an ephemeral loopback port
\* and the serving thread is started
StartServer ==
    /\ pc = "start"
    /\ \E port \in EphemeralPorts :
          server' = [server EXCEPT !.listener = "listening", !.port = port]
    /\ thread' = "started"
    /\ hist' = [hist EXCEPT !.events = Append(@, "server_started")]
    /\ pc' = "url"
    /\ UNCHANGED <<args, ret, proc, local>>

\* lines 85-87, outside the try statement
BuildUrl ==
    /\ pc = "url"
    /\ LET name == args.html_path.parts[Len(args.html_path.parts)]
       IN  IF Encodable(name)
           THEN /\ local' = [local EXCEPT !.url = <<"http://", "127.0.0.1", ":">>
                                \o IntStr(server.port) \o <<"/">> \o Quote(name)]
                /\ pc' = "build"
                /\ ret' = ret
           ELSE /\ ret' = Raise("UnicodeEncodeError", <<"surrogates not allowed">>)
                /\ pc' = "raised"
                /\ local' = local
    /\ UNCHANGED <<args, server, thread, proc, hist>>

\* line 90
BuildCommand ==
    /\ pc = "build"
    /\ local' = [local EXCEPT !.command =
                    build_print_command(args.browser, local.url, args.output_pdf, args.wait_ms)]
    /\ pc' = "run"
    /\ UNCHANGED <<args, ret, server, thread, proc, hist>>

\* line 91, subprocess.run: the child is spawned, or Popen raises OSError
LaunchSubprocess ==
    /\ pc = "run"
    /\ hist' = [hist EXCEPT !.events = Append(@, "launch")]
    /\ \/ /\ proc' = [proc EXCEPT !.state = "running"]
          /\ pc' = "communicate"
          /\ local' = local
       \/ /\ proc' = [proc EXCEPT !.state = "not_launched"]
          /\ local' = [local EXCEPT !.exc = Some(Raise("OSError", <<"exec failed">>))]
          /\ pc' = "finally"
    /\ UNCHANGED <<args, ret, server, thread>>

\* the browser ends with some status, having written some bytes
SubprocessExits ==
    /\ proc.state = "running"
    /\ \E rc \in {0, 1}, out \in SampleOutputs, err \in SampleOutputs :
          proc' = [state |-> "exited", returncode |-> rc, stdout |-> out, stderr |-> err]
    /\ UNCHANGED <<args, ret, pc, server, thread, local, hist>>

\* line 91, subprocess.run returns: capture_output with text=True decodes both
\* streams; check=False leaves the exit status to the caller
Communicate ==
    /\ pc = "communicate"
    /\ proc.state = "exited"
    /\ IF Decodable(proc.stdout) /\ Decodable(proc.stderr)
       THEN /\ local' = [local EXCEPT !.result =
                            Some([returncode |-> proc.returncode,
                                  stdout |-> DecodeText(proc.stdout),
                                  stderr |-> DecodeText(proc.stderr)])]
            /\ pc' = "check"
       ELSE /\ local' = [local EXCEPT !.exc =
                            Some(Raise("UnicodeDecodeError", <<"invalid start byte">>))]
            /\ pc' = "finally"
    /\ UNCHANGED <<args, ret, server, thread, proc, hist>>

\* a variant that launches the browser again after a failure
CheckReturnCodeRetry ==
    /\ pc = "check"
    /\ IF TheValue(local.result).returncode # 0
       THEN /\ pc' = "run"
            /\ proc' = [proc EXCEPT !.state = "none"]
       ELSE /\ pc' = "finally"
            /\ proc' = proc
    /\ UNCHANGED <<args, ret, server, thread, local, hist>>

\* lines 92-98
CheckReturnCode ==
    /\ pc = "check"
    /\ IF TheValue(local.result).returncode # 0
       THEN local' = [local EXCEPT !.exc =
                         Some(Raise("RuntimeError",
                                    FailureMessage(local.command, TheValue(local.result))))]
       ELSE local' = local
    /\ pc' = "finally"
    /\ UNCHANGED <<args, ret, server, thread, proc, hist>>

\* line 100, server.shutdown(): the request flag is set, then the caller
\* waits for the serving loop to acknowledge
ShutdownRequest ==
    /\ pc = "finally"
    /\ server' = [server EXCEPT !.shutdown_request = TRUE]
    /\ hist' = [hist EXCEPT !.events = Append(@, "shutdown")]
    /\ pc' = "shutdown_wait"
    /\ UNCHANGED <<args, ret, thread, proc, local>>

ShutdownReturns ==
    /\ pc = "shutdown_wait"
    /\ server.is_shut_down
    /\ pc' = "join"
    /\ UNCHANGED <<args, ret, server, thread, proc, local, hist>>

\* line 101, thread.join(timeout=2): a second passes with the thread alive
JoinTick ==
    /\ pc = "join"
    /\ thread # "terminated"
    /\ local.waited < JoinTimeout
    /\ local' = [local EXCEPT !.waited = @ + 1]
    /\ UNCHANGED <<args, ret, pc, server, thread, proc, hist>>

\* line 101 and the end of the finally clause: join returns None when the
\* thread has ended or the timeout has passed; the pending exception, if
\* any, is re-raised
JoinReturns ==
    /\ pc = "join"
    /\ thread = "terminated" \/ local.waited = JoinTimeout
    /\ hist' = [hist EXCEPT !.joined = IF thread = "terminated" THEN "terminated" ELSE "timeout"]
    /\ IF local.exc = None
       THEN pc' = "returned" /\ ret' = Return(None)
       ELSE pc' = "raised" /\ ret' = TheValue(local.exc)
    /\ UNCHANGED <<args, server, thread, proc, local>>

\* line 60, Thread(target=server.serve_forever).run: serve_forever clears the
\* acknowledgement event and enters its loop
ThreadRuns ==
    /\ thread = "started"
    /\ thread' = "serving"
    /\ server' = [server EXCEPT !.is_shut_down = FALSE]
    /\ UNCHANGED <<args, ret, pc, proc, local, hist>>

\* a client on this host connects: the kernel completes the handshake on
\* any listening socket
Connect ==
    /\ server.listener = "listening"
    /\ server.backlog + server.served < MaxRequests
    /\ server' = [server EXCEPT !.backlog = @ + 1]
    /\ UNCHANGED <<args, ret, pc, thread, proc, local, hist>>

\* the serving loop accepts a pending connection and answers it
HandleRequest ==
    /\ thread = "serving"
    /\ ~server.shutdown_request
    /\ server.backlog > 0
    /\ server' = [server EXCEPT !.backlog = @ - 1, !.served = @ + 1]
    /\ UNCHANGED <<args, ret, pc, thread, proc, local, hist>>

\* the serving loop sees the request, resets it and acknowledges
ServeLoopExits ==
    /\ thread = "serving"
    /\ server.shutdown_request
    /\ server' = [server EXCEPT !.shutdown_request = FALSE, !.is_shut_down = TRUE]
    /\ thread' = "returning"
    /\ UNCHANGED <<args, ret, pc, proc, local, hist>>

ThreadEnds ==
    /\ thread = "returning"
    /\ thread' = "terminated"
    /\ UNCHANGED <<args, ret, pc, server, proc, local, hist>>

\* export_to_pdf never calls server_close(): the listening socket is closed
\* only when the runtime finalizes the server object, which can happen once
\* the call has ended and the thread that holds serve_forever has ended
ReleaseServer ==
    /\ Exited
    /\ thread = "terminated"
    /\ server.listener = "listening"
    /\ server' = [server EXCEPT !.listener = "closed", !.backlog = 0]
    /\ UNCHANGED <<args, ret, pc, thread, proc, local, hist>>

CallerStep ==
    \/ StartServer \/ BuildUrl \/ BuildCommand \/ LaunchSubprocess \/ Communicate
    \/ CheckReturnCode \/ ShutdownRequest \/ ShutdownReturns \/ JoinTick \/ JoinReturns

ServerThreadStep == ThreadRuns \/ HandleRequest \/ ServeLoopExits \/ ThreadEnds

Next ==
    \/ StartServer \/ BuildUrl \/ BuildCommand \/ LaunchSubprocess \/ SubprocessExits
    \/ Communicate \/ CheckReturnCode \/ ShutdownRequest \/ ShutdownReturns
    \/ JoinTick \/ JoinReturns
    \/ ThreadRuns \/ Connect \/ HandleRequest \/ ServeLoopExits \/ ThreadEnds
    \/ ReleaseServer

Spec == Init /\ [][Next]_vars

\* both threads are scheduled; JoinReturns is the passing of the timeout
FairSpec == Spec /\ WF_vars(CallerStep) /\ WF_vars(ServerThreadStep)

(***************************************************************************)
(* Properties                                                              *)
(***************************************************************************)
Occurs(e, seq) == \E i \in DOMAIN seq : seq[i] = e
IsPrefix(a, b) == Len(a) <= Len(b) /\ SubSeq(b, 1, Len(a)) = a
IsInfix(a, b) == \E i \in 0 .. (Len(b) - Len(a)) : SubSeq(b, i + 1, i + Len(a)) = a

DigitValue(t) == CHOOSE d \in 0 .. 9 : Digits[d + 1] = t
IsDigits(s) == s # <<>> /\ \A i \in DOMAIN s : \E d \in 0 .. 9 : Digits[d + 1] = s[i]

RECURSIVE NatValue(_)
NatValue(s) == IF s = <<>> THEN 0 ELSE 10 * NatValue(SubSeq(s, 1, Len(s) - 1)) + DigitValue(s[Len(s)])

\* the integer a decimal string denotes
IntValue(s) == IF Head(s) = "-" THEN 0 - NatValue(Tail(s)) ELSE NatValue(s)
IsDecimal(s) == s # <<>> /\ IF Head(s) = "-" THEN IsDigits(Tail(s)) ELSE IsDigits(s)

\* C1: once export_to_pdf has returned or raised with the server started,
\* shutdown has been requested and the serving thread has been joined.
C1_ShutdownOnEveryExit ==
    (Exited /\ Occurs("server_started", hist.events))
        => (Occurs("shutdown", hist.events) /\ hist.joined # "no")

\* C2: once export_to_pdf has shut the server down and has returned or
\* raised, no listener remains on the port bound for the call.
C2_NoListenerAfterExit ==
    (Exited /\ Occurs("shutdown", hist.events)) => server.listener # "listening"

\* C3: with the subprocess launched, export_to_pdf raises exactly when the exit
\* status is non-zero; the error then is the execution failure whose message
\* carries the command line and the captured stdout and stderr.
C3_FailsIffNonZeroExit ==
    (Exited /\ proc.state = "exited")
        => /\ (ret.kind = "raise") <=> (proc.returncode # 0)
           /\ ret.kind = "raise"
                => /\ ret.type = "RuntimeError"
                   /\ IsInfix(Join(local.command, " "), ret.msg)
                   /\ IsInfix(<<"stdout: ">> \o DecodeText(proc.stdout), ret.msg)
                   /\ IsInfix(<<"stderr: ">> \o DecodeText(proc.stderr), ret.msg)

\* C4: an explicit path, whatever its value, that names no existing regular
\* file (neither as written nor in its pathlib form) makes find_browser raise
\* the not-found-at-path error; the candidate names are not searched.
C4_ExplicitMissingAlwaysFails ==
    (/\ args.fn = "find_browser" /\ ret # Pending
     /\ args.explicit_path # None
     /\ ~OsIsFile(TheValue(args.explicit_path), args.cwd, args.files)
     /\ ~OsIsFile(PathStr(PathOf(TheValue(args.explicit_path))), args.cwd, args.files))
        => /\ ret.kind = "raise"
           /\ ret.type = "FileNotFoundError"
           /\ IsPrefix(<<"Browser binary not found at provided path: ">>, ret.msg)

\* C5: an explicit path string that names an existing regular file is
\* returned character for character.
C5_ExplicitReturnedUnchanged ==
    (/\ args.fn = "find_browser" /\ ret # Pending
     /\ args.explicit_path # None
     /\ OsIsFile(TheValue(args.explicit_path), args.cwd, args.files))
        => ret = Return(TheValue(args.explicit_path))

\* C6: without an explicit path the candidates are tried in the order
\* google-chrome, chromium-browser, chromium, chrome, msedge; the resolved
\* path of the first one that resolves is returned, and the not-found error
\* that points to --browser is raised exactly when none resolves.
C6_FirstCandidateWins ==
    (args.fn = "find_browser" /\ ret # Pending /\ args.explicit_path = None)
        => LET order == <<"google-chrome", "chromium-browser", "chromium", "chrome", "msedge">>
           IN  /\ (ret.kind = "raise") <=> (\A i \in DOMAIN order : order[i] \notin args.installed)
               /\ ret.kind = "raise"
                    => /\ ret.type = "FileNotFoundError"
                       /\ \E i \in DOMAIN ret.msg :
                             ret.msg[i] = "No Chrome/Chromium executable found. Use --browser to point to an existing binary."
               /\ \A i \in DOMAIN order :
                     (order[i] \in args.installed /\ \A j \in 1 .. (i - 1) : order[j] \notin args.installed)
                        => ret = Return(<<"/", "usr", "/", "bin", "/", order[i]>>)

C6_Witness ==
    /\ args.fn = "find_browser" /\ args.explicit_path = None
    /\ args.installed = {"chromium", "chrome", "msedge"}
    /\ ret = Return(<<"/", "usr", "/", "bin", "/", "chromium">>)

\* C7: the command starts with the browser, ends with the URL, and holds the
\* three fixed flags, --virtual-time-budget= followed by the decimal form of
\* wait_ms, and --print-to-pdf= followed by the output path as written.
C7_CommandShape ==
    (args.fn = "build_print_command" /\ ret.kind = "return")
        => LET c == ret.value
           IN  /\ c[1] = args.browser
               /\ c[Len(c)] = args.url
               /\ Occurs(<<"--headless=new">>, c)
               /\ Occurs(<<"--disable-gpu">>, c)
               /\ Occurs(<<"--no-sandbox">>, c)
               /\ \E i \in DOMAIN c :
                     /\ c[i] # <<>> /\ Head(c[i]) = "--virtual-time-budget="
                     /\ IsDecimal(Tail(c[i]))
                     /\ IntValue(Tail(c[i])) = args.wait_ms
               /\ Occurs(<<"--print-to-pdf=">> \o PathStr(args.output_pdf), c)

C7_Witness ==
    /\ args.fn = "build_print_command" /\ ret.kind = "return"
    /\ args.wait_ms = DefaultWait
    /\ args.output_pdf = PathOf(<<"/", "out">>)
    /\ ret.value[5] = <<"--virtual-time-budget=", "1", "0", "0", "0", "0">>
    /\ ret.value[6] = <<"--print-to-pdf=", "/", "out">>

\* the file name without its extension: the part before the last dot, when
\* that dot is neither the first nor the last character; a name whose last
\* dot is its first or last character has no extension
Stem(name) ==
    IF /\ \E i \in 2 .. (Len(name) - 1) : name[i] = "."
       /\ name[Len(name)] # "."
    THEN LET i == CHOOSE k \in 2 .. (Len(name) - 1) :
                     name[k] = "." /\ \A j \in (k + 1) .. Len(name) : name[j] # "."
         IN  SubSeq(name, 1, i - 1)
    ELSE name

OtherHtmlFiles == { <<"report", ".", "htm">>, <<"htm">>, <<"~", "/", "report">> }

\* C8: without an output argument the output path is the resolved HTML path
\* with the extension of its name replaced by .pdf, in the same directory
\* (report.htm gives report.pdf); with an output argument the output path is
\* that argument expanded and resolved, whatever the HTML file is called.
C8_OutputPath ==
    (args.fn = "main" /\ ret.kind = "return")
        => LET h == ret.value.html_path
               o == ret.value.output_pdf
           IN  IF args.output_pdf = None
               THEN /\ o.root = h.root
                    /\ Len(o.parts) = Len(h.parts)
                    /\ SubSeq(o.parts, 1, Len(o.parts) - 1) = SubSeq(h.parts, 1, Len(h.parts) - 1)
                    /\ o.parts[Len(o.parts)] = Stem(h.parts[Len(h.parts)]) \o <<".", "pdf">>
                    /\ args.html_file = <<"report", ".", "htm">>
                         => PathStr(o) = <<"/", "srv", "/", "work", "/", "report", ".", "pdf">>
               ELSE /\ o = Resolve(ExpandUser(PathOf(TheValue(args.output_pdf)), HomeDir).value, Cwd)
                    /\ \A other \in OtherHtmlFiles :
                          LET r == ResolvePaths(other, args.output_pdf, Cwd, HomeDir, args.exists)
                          IN  r.kind = "return" => r.value.output_pdf = o

C8_Witness ==
    /\ args.fn = "main" /\ ret.kind = "return"
    /\ args.html_file = <<"report", ".", "htm">>
    /\ args.output_pdf = None
    /\ PathStr(ret.value.output_pdf) = <<"/", "srv", "/", "work", "/", "report", ".", "pdf">>

\* C9: after the subprocess has exited the join waits no longer than the
\* timeout, a thread still alive at the timeout raises nothing, and whether
\* the call returns or raises is decided by the exit status alone.
C9_OutcomeByExitStatusAlone ==
    /\ pc = "join" => local.waited <= JoinTimeout
    /\ (Exited /\ proc.state = "exited")
          => /\ hist.joined \in {"terminated", "timeout"}
             /\ (ret.kind = "return") <=> (proc.returncode = 0)
             /\ ret.kind = "raise" => ret.type = "RuntimeError"

ExportTerminates == (proc.state = "exited") ~> Exited

====
